---- MODULE Spec2Model ----
(***************************************************************************)
(* A model of clean_ufw.py: the UFW cleanup utility that lists the         *)
(* numbered rule table, flags "ALLOW IN from Anywhere" rules other than    *)
(* port 22, and deletes them by index, highest index first, in a one-shot  *)
(* pass or in a watch loop.                                                *)
(*                                                                         *)
(* Text is modelled as sequences of one-character strings, so that the     *)
(* two regular expressions of the program are computed on characters.      *)
(***************************************************************************)
EXTENDS Integers, Sequences, FiniteSets, TLC

VARIABLES
    table,      \* the live ufw rule table (owned by the firewall): a sequence of rules
    pc,         \* where the process is: idle, start, sudo, parse, confirm, delete, sleep, done
    euid,       \* os.geteuid() of the process: "root" or "user"
    mode,       \* "single" (args.watch is None) or "watch"
    dry_run,    \* args.dry_run
    assume_yes, \* args.yes
    interval,   \* args.watch (meaningful in watch mode)
    rules,      \* the list parse_ufw_status returned
    todo,       \* what is left of sorted(rule_numbers, reverse=True) in delete_rules
    calls,      \* the "ufw --force delete" calls issued since the last snapshot
    exit,       \* how the current run ended ("running" until it does)
    prev,       \* how the run before the current one ended ("none" for the first)
    polls,      \* listing queries issued by the current run
    listing,    \* how the last listing query ended: "none" (no query yet), "ok", "failed"
    edits,      \* edits of the rule table by other actors so far
    edited,     \* whether another actor edited the table since the last snapshot
    snap,       \* the rule table as it was when the last listing was taken
    answer,     \* what the operator typed at the prompt of this pass: <<>> or <<text>>
    sigint      \* whether Ctrl+C reached the process

vars == <<table, pc, euid, mode, dry_run, assume_yes, interval, rules, todo, calls,
          exit, prev, polls, listing, edits, edited, snap, answer, sigint>>

-----------------------------------------------------------------------------
(* Bounds of the model *)

MaxRules == 3
MaxEdits == 1
MaxPolls == 2

-----------------------------------------------------------------------------
(* Characters and text *)

Digits == <<"0", "1", "2", "3", "4", "5", "6", "7", "8", "9">>

DigitSet == {Digits[i] : i \in 1..Len(Digits)}

Letters ==
    {"a", "b", "c", "d", "e", "f", "g", "h", "i", "j", "k", "l", "m", "n", "o", "p",
     "q", "r", "s", "t", "u", "v", "w", "x", "y", "z",
     "A", "B", "C", "D", "E", "F", "G", "H", "I", "J", "K", "L", "M", "N", "O", "P",
     "Q", "R", "S", "T", "U", "V", "W", "X", "Y", "Z"}

\* \s of the re module
IsSpace(c) == c \in {" ", "\t"}

\* \d of the re module
IsDigit(c) == c \in DigitSet

\* \w of the re module
IsWordChar(c) == c \in (Letters \cup DigitSet \cup {"_"})

SetMin(S) == CHOOSE x \in S : \A y \in S : x <= y

SetMax(S) == CHOOSE x \in S : \A y \in S : x >= y

\* str.strip()
Strip(s) ==
    LET keep == {i \in 1..Len(s) : ~IsSpace(s[i])}
    IN  IF keep = {} THEN <<>> ELSE SubSeq(s, SetMin(keep), SetMax(keep))

\* whether the text lit stands in s at position i
HasAt(s, i, lit) ==
    /\ i >= 1
    /\ i + Len(lit) - 1 <= Len(s)
    /\ \A j \in 1..Len(lit) : s[i + j - 1] = lit[j]

DigitValue(c) == (CHOOSE i \in 1..Len(Digits) : Digits[i] = c) - 1

\* int() of a string of digits
RECURSIVE ToInt(_)
ToInt(s) ==
    IF s = <<>> THEN 0
    ELSE 10 * ToInt(SubSeq(s, 1, Len(s) - 1)) + DigitValue(s[Len(s)])

S_ALLOW == <<"A", "L", "L", "O", "W">>
S_DENY == <<"D", "E", "N", "Y">>
S_IN == <<"I", "N">>
S_OUT == <<"O", "U", "T">>
S_ALLOW_IN == S_ALLOW \o <<" ">> \o S_IN
S_Anywhere == <<"A", "n", "y", "w", "h", "e", "r", "e">>
S_AnywhereV6 == S_Anywhere \o <<" ", "(", "v", "6", ")">>
S_Lan == <<"1", "0", ".", "0", ".", "0", ".", "0", "/", "8">>
S_tcp == <<"/", "t", "c", "p">>
S_22 == <<"2", "2">>
S_22tcp == S_22 \o S_tcp
S_80tcp == <<"8", "0">> \o S_tcp
S_8080tcp == <<"8", "0", "8", "0">> \o S_tcp
S_220tcp == <<"2", "2", "0">> \o S_tcp
S_5522 == <<"5", "5", "2", "2">>
S_22_8080tcp == S_22 \o <<",">> \o S_8080tcp
S_80tcpV6 == S_80tcp \o <<" ", "(", "v", "6", ")">>
S_22tcpV6 == S_22tcp \o <<" ", "(", "v", "6", ")">>

\* the characters of the texts the rules of the model are written with
Text(label) ==
    CASE label = "ALLOW" -> S_ALLOW
      [] label = "DENY" -> S_DENY
      [] label = "IN" -> S_IN
      [] label = "OUT" -> S_OUT
      [] label = "Anywhere" -> S_Anywhere
      [] label = "Anywhere (v6)" -> S_AnywhereV6
      [] label = "10.0.0.0/8" -> S_Lan
      [] label = "22" -> S_22
      [] label = "22/tcp" -> S_22tcp
      [] label = "80/tcp" -> S_80tcp
      [] label = "8080/tcp" -> S_8080tcp
      [] label = "220/tcp" -> S_220tcp
      [] label = "5522" -> S_5522
      [] label = "22,8080/tcp" -> S_22_8080tcp
      [] label = "80/tcp (v6)" -> S_80tcpV6
      [] label = "22/tcp (v6)" -> S_22tcpV6

-----------------------------------------------------------------------------
(* The listing the program reads: "ufw status numbered" *)

\* a rule of the table: its columns To, Action (with its direction) and From
Rule(to, action, dir, from) == [to |-> to, action |-> action, dir |-> dir, from |-> from]

\* the index column, "[%2d]"
IndexText(i) ==
    IF i < 10 THEN <<" ", Digits[i + 1]>>
    ELSE <<Digits[(i \div 10) + 1], Digits[(i % 10) + 1]>>

Gap == <<" ", " ">>

\* one numbered line of the listing, padded on the right as ufw pads its columns
RuleLine(i, r) ==
    <<"[">> \o IndexText(i) \o <<"]", " ">> \o Text(r.to) \o Gap
        \o Text(r.action) \o <<" ">> \o Text(r.dir) \o Gap \o Text(r.from) \o Gap

HeaderLines ==
    << <<"S", "t", "a", "t", "u", "s", ":", " ", "a", "c", "t", "i", "v", "e">>,
       <<>>,
       Gap \o <<"T", "o">> \o Gap \o <<"A", "c", "t", "i", "o", "n">> \o Gap
           \o <<"F", "r", "o", "m">>,
       Gap \o <<"-", "-">> \o Gap \o <<"-", "-", "-", "-", "-", "-">> \o Gap
           \o <<"-", "-", "-", "-">> >>

\* "ufw status numbered" on rule table t, as output.splitlines()
ufw_status_numbered(t) ==
    HeaderLines \o [i \in 1..Len(t) |-> RuleLine(i, t[i])] \o << <<>> >>

-----------------------------------------------------------------------------
(* The two regular expressions and the classifier *)

FirstNonSpace(s, i) == SetMin({j \in i..Len(s) : ~IsSpace(s[j])} \cup {Len(s) + 1})

FirstNonDigit(s, i) == SetMin({j \in i..Len(s) : ~IsDigit(s[j])} \cup {Len(s) + 1})

NoMatch == [matched |-> FALSE, idx |-> <<>>, to |-> <<>>, from |-> <<>>]

\* RULE_RE.match(s):  ^\[\s*(?P<idx>\d+)\]\s+(?P<to>.+?)\s+ALLOW IN\s+(?P<from>.+)$
\* The groups are those of the first match a backtracking matcher finds: the
\* \s+ after "]" is greedy (the latest start of <to> first), <to> is lazy (the
\* shortest first), the \s+ before <from> is greedy but leaves <from> a character.
RULE_RE(s) ==
    LET n == Len(s)
        p1 == FirstNonSpace(s, 2)
        p2 == FirstNonDigit(s, p1)
        q == FirstNonSpace(s, p2 + 1)
        lit == Len(S_ALLOW_IN)
        Tail1(a, k) ==
            LET b == FirstNonSpace(s, a + k)
            IN  /\ a + k <= n
                /\ IsSpace(s[a + k])
                /\ HasAt(s, b, S_ALLOW_IN)
                /\ b + lit + 1 <= n
                /\ IsSpace(s[b + lit])
        cands == {c \in (p2 + 2 .. q) \X (1..n) : Tail1(c[1], c[2])}
    IN  IF /\ n >= 1
           /\ s[1] = "["
           /\ p2 > p1
           /\ p2 <= n
           /\ s[p2] = "]"
           /\ cands # {}
        THEN LET a == SetMax({c[1] : c \in cands})
                 k == SetMin({c[2] : c \in {d \in cands : d[1] = a}})
                 b == FirstNonSpace(s, a + k)
                 f == IF FirstNonSpace(s, b + lit) <= n
                      THEN FirstNonSpace(s, b + lit) ELSE n
             IN  [matched |-> TRUE,
                  idx |-> SubSeq(s, p1, p2 - 1),
                  to |-> SubSeq(s, a, a + k - 1),
                  from |-> SubSeq(s, f, n)]
        ELSE NoMatch

ANYWHERE_PATTERNS == {S_Anywhere, S_AnywhereV6}

\* \b between s[i] and s[i+1] (i = 0 is the start of the text, i = Len(s) its end)
WordBoundary(s, i) ==
    LET before == i >= 1 /\ i <= Len(s) /\ IsWordChar(s[i])
        after == i + 1 >= 1 /\ i + 1 <= Len(s) /\ IsWordChar(s[i + 1])
    IN  before # after

\* the pattern without its word boundaries: 22(/tcp)?
SSH_PORT_PATTERN_unanchored(s) == \E i \in 1..Len(s) : HasAt(s, i, S_22)

\* SSH_PORT_PATTERN.search(s):  \b22(/tcp)?\b
SSH_PORT_PATTERN(s) ==
    \E i \in 1..Len(s) :
        /\ WordBoundary(s, i - 1)
        /\ HasAt(s, i, S_22)
        /\ \/ HasAt(s, i + Len(S_22), S_tcp)
              /\ WordBoundary(s, i + Len(S_22) + Len(S_tcp) - 1)
           \/ WordBoundary(s, i + Len(S_22) - 1)

\* the classifier without the port-22 exemption
LineToDelete_no_exemption(line) ==
    LET m == RULE_RE(Strip(line))
    IN  m.matched /\ Strip(m.from) \in ANYWHERE_PATTERNS

\* the body of the loop of parse_ufw_status: whether the line is to be deleted
LineToDelete(line) ==
    LET m == RULE_RE(Strip(line))
    IN  /\ m.matched
        /\ Strip(m.from) \in ANYWHERE_PATTERNS
        /\ ~SSH_PORT_PATTERN(Strip(m.to))

LineIndex(line) == ToInt(RULE_RE(Strip(line)).idx)

\* parse_ufw_status on the lines of a listing: the rule numbers to delete, in
\* listing order
RECURSIVE parse_ufw_status(_)
parse_ufw_status(lines) ==
    IF lines = <<>> THEN <<>>
    ELSE LET rest == parse_ufw_status(SubSeq(lines, 1, Len(lines) - 1))
             line == lines[Len(lines)]
         IN  IF LineToDelete(line) THEN Append(rest, LineIndex(line)) ELSE rest

-----------------------------------------------------------------------------
(* The rule table and the process *)

R_ssh == Rule("22/tcp", "ALLOW", "IN", "Anywhere")
R_web == Rule("80/tcp", "ALLOW", "IN", "Anywhere")
R_web6 == Rule("80/tcp (v6)", "ALLOW", "IN", "Anywhere (v6)")
R_alt == Rule("8080/tcp", "ALLOW", "IN", "Anywhere")

\* the rules a table of the process model may hold
RuleUniverse == {R_ssh, R_web, R_web6, R_alt}

Range(f) == {f[i] : i \in DOMAIN f}

\* ufw keeps no two equal rules: the tables of up to n distinct rules over U
TablesOver(U, n) ==
    UNION {{t \in [1..k -> U] : \A i, j \in 1..k : t[i] = t[j] => i = j} : k \in 0..n}

NoRule == Rule("", "", "", "")

Intervals == {0, 1}

\* input() answers, as typed
Answers == {<<" ", "Y">>, <<"n">>, <<>>, <<"y", "e", "s">>}

LowerChar(c) == IF c = "Y" THEN "y" ELSE IF c = "N" THEN "n" ELSE c

\* str.lower()
Lower(s) == [i \in 1..Len(s) |-> LowerChar(s[i])]

\* "ufw delete N" on table t: the rules above N move down by one
ufw_delete(t, n) == [i \in 1..(Len(t) - 1) |-> IF i < n THEN t[i] ELSE t[i + 1]]

\* "ufw insert N rule" on table t (N = Len(t) + 1 appends)
ufw_insert(t, n, r) ==
    [i \in 1..(Len(t) + 1) |-> IF i < n THEN t[i] ELSE IF i = n THEN r ELSE t[i - 1]]

RECURSIVE sorted_asc(_)
\* sorted(rule_numbers), the reverse=True forgotten
sorted_asc(s) ==
    IF s = <<>> THEN <<>>
    ELSE LET m == SetMin(Range(s))
             at == SetMin({i \in 1..Len(s) : s[i] = m})
         IN  <<m>> \o sorted_asc(SubSeq(s, 1, at - 1) \o SubSeq(s, at + 1, Len(s)))

\* the plan taken in listing order, not sorted at all
unsorted(s) == s

RECURSIVE sorted_desc(_)
\* sorted(rule_numbers, reverse=True)
sorted_desc(s) ==
    IF s = <<>> THEN <<>>
    ELSE LET m == SetMax(Range(s))
             at == SetMin({i \in 1..Len(s) : s[i] = m})
         IN  <<m>> \o sorted_desc(SubSeq(s, 1, at - 1) \o SubSeq(s, at + 1, Len(s)))

\* a delete_rules whose first failed call ends the loop
delete_rest_abort(ok, rest) == IF ok THEN rest ELSE <<>>

\* what delete_rules goes on with after the call for the head of the plan: the
\* except clause only reports, the loop goes on
delete_rest(ok, rest) == rest

\* sys.exit(message) ends with status 1; a return from main, with 0; an uncaught
\* KeyboardInterrupt, with a non-zero status
ExitCode(how) ==
    IF how \in {"fatal", "killed"} THEN 1 ELSE 0

Ended(how) == [pc |-> "done", exit |-> how]

Goto(label) == [pc |-> label, exit |-> "running"]

\* the end of an iteration of watch_loop: sleep when interval > 0, then loop
next_iteration(ivl) == IF ivl > 0 THEN Goto("sleep") ELSE Goto("parse")

\* a single_cleanup without its "if not rules: return"
single_cleanup_no_empty_check(rs, dry, yes) ==
    IF dry THEN Ended("dryrun")
    ELSE IF ~yes THEN Goto("confirm")
    ELSE Goto("delete")

\* single_cleanup after parse_ufw_status returned rs
single_cleanup(rs, dry, yes) ==
    IF rs = <<>> THEN Ended("nothing")
    ELSE IF dry THEN Ended("dryrun")
    ELSE IF ~yes THEN Goto("confirm")
    ELSE Goto("delete")

\* a watch_loop that looks at dry_run only when it is about to prompt
watch_loop_ignores_dry_run(rs, dry, yes, ivl) ==
    IF rs = <<>> THEN Ended("clean")
    ELSE IF yes THEN Goto("delete")
    ELSE IF dry THEN next_iteration(ivl)
    ELSE Goto("confirm")

\* a watch_loop that does not break on an empty list
watch_loop_no_break(rs, dry, yes, ivl) ==
    IF rs = <<>> \/ dry THEN next_iteration(ivl)
    ELSE IF ~yes THEN Goto("confirm")
    ELSE Goto("delete")

\* a watch_loop that returns after a dry-run report, as single_cleanup does
watch_loop_dry_stops(rs, dry, yes, ivl) ==
    IF rs = <<>> THEN Ended("clean")
    ELSE IF dry THEN Ended("dryrun")
    ELSE IF ~yes THEN Goto("confirm")
    ELSE Goto("delete")

\* the body of the loop of watch_loop after parse_ufw_status returned rs
watch_loop(rs, dry, yes, ivl) ==
    IF rs = <<>> THEN Ended("clean")
    ELSE IF dry THEN next_iteration(ivl)
    ELSE IF ~yes THEN Goto("confirm")
    ELSE Goto("delete")

after_snapshot(m, rs, dry, yes, ivl) ==
    IF m = "watch" THEN watch_loop(rs, dry, yes, ivl) ELSE single_cleanup(rs, dry, yes)

\* a watch_loop that catches the failure of the query and goes on
query_failed_caught(m) == IF m = "watch" THEN Goto("sleep") ELSE Ended("fatal")

\* where the process goes when the listing query fails: sys.exit in
\* parse_ufw_status, which the except KeyboardInterrupt of watch_loop lets through
query_failed(m) == Ended("fatal")

\* a prompt that takes every answer but "n" as a yes
after_confirm_default_yes(m, typed, ivl) ==
    IF Strip(Lower(typed)) # <<"n">> THEN Goto("delete")
    ELSE IF m = "watch" THEN next_iteration(ivl)
    ELSE Ended("aborted")

\* a watch_loop that a declined prompt ends, as it ends single_cleanup
after_confirm_no_ends(m, typed, ivl) ==
    IF Strip(Lower(typed)) = <<"y">> THEN Goto("delete") ELSE Ended("aborted")

\* after the answer to "Proceed with deletion? [y/N]: "
after_confirm(m, typed, ivl) ==
    IF Strip(Lower(typed)) = <<"y">> THEN Goto("delete")
    ELSE IF m = "watch" THEN next_iteration(ivl)
    ELSE Ended("aborted")

\* a watch_loop that ends after its deletion pass without listing again
after_delete_ends(m, ivl) == Ended("completed")

\* after delete_rules returned
after_delete(m, ivl) ==
    IF m = "watch" THEN next_iteration(ivl) ELSE Ended("completed")

\* Ctrl+C: watch_loop catches KeyboardInterrupt and returns; single_cleanup does not
on_interrupt(m) == IF m = "watch" THEN Ended("interrupted") ELSE Ended("killed")

Init ==
    /\ table \in TablesOver(RuleUniverse, MaxRules)
    /\ pc = "idle"
    /\ mode = "single"
    /\ dry_run = FALSE
    /\ assume_yes = FALSE
    /\ interval = 0
    /\ rules = <<>>
    /\ todo = <<>>
    /\ calls = <<>>
    /\ exit = "none"
    /\ prev = "none"
    /\ polls = 0
    /\ listing = "none"
    /\ edits = 0
    /\ edited = FALSE
    /\ snap = <<>>
    /\ euid = "root"
    /\ answer = <<>>
    /\ sigint = FALSE

\* main(): the process is started with its arguments, as root or not, for the first
\* time, or for a one-shot pass after a one-shot pass that applied its plan. (A
\* run started after any other ending begins as a first run does, from a table
\* Init has.)
Main(m, dry, yes, ivl) ==
    /\ \/ pc = "idle"
       \/ pc = "done" /\ exit = "completed" /\ prev = "none" /\ m = "single"
    /\ mode' = m
    /\ dry_run' = dry
    /\ assume_yes' = yes
    /\ interval' = ivl
    /\ euid' \in {"root", "user"}
    /\ answer' = <<>>
    /\ sigint' = FALSE
    /\ pc' = "start"
    /\ exit' = "running"
    /\ prev' = exit
    /\ polls' = 0
    /\ listing' = "none"
    /\ rules' = <<>>
    /\ todo' = <<>>
    /\ calls' = <<>>
    /\ edited' = FALSE
    /\ snap' = <<>>
    /\ UNCHANGED <<table, edits>>

\* the arguments the elevated process is started with: sys.argv, whole
sudo_argv(argv) == argv

\* a main() that goes on to the firewall whoever runs it
ensure_root_skipped(uid, sudo_found) == Goto("parse")

\* ensure_root(): a root process goes on; any other replaces itself by sudo, or
\* ends with a message when there is no sudo
ensure_root(uid, sudo_found) ==
    IF uid = "root" THEN Goto("parse")
    ELSE IF sudo_found THEN Goto("sudo")
    ELSE Ended("fatal")

\* ensure_root() at the start of main()
EnsureRoot(sudo_found) ==
    /\ pc = "start"
    /\ pc' = ensure_root(euid, sudo_found).pc
    /\ exit' = ensure_root(euid, sudo_found).exit
    /\ UNCHANGED <<table, euid, mode, dry_run, assume_yes, interval, rules, todo, calls,
                   prev, polls, listing, edits, edited, snap, answer, sigint>>

\* sudo, which the process has become: it starts the script again as root with
\* the arguments it was given, or refuses and ends with a non-zero status
Sudo(granted) ==
    /\ pc = "sudo"
    /\ LET argv == [mode |-> mode, dry_run |-> dry_run, assume_yes |-> assume_yes,
                    interval |-> interval]
       IN  IF granted
           THEN /\ euid' = "root"
                /\ pc' = "start"
                /\ exit' = exit
                /\ mode' = sudo_argv(argv).mode
                /\ dry_run' = sudo_argv(argv).dry_run
                /\ assume_yes' = sudo_argv(argv).assume_yes
                /\ interval' = sudo_argv(argv).interval
           ELSE /\ pc' = "done"
                /\ exit' = "fatal"
                /\ UNCHANGED <<euid, mode, dry_run, assume_yes, interval>>
    /\ UNCHANGED <<table, rules, todo, calls, prev, polls, listing, edits, edited, snap,
                   answer, sigint>>

\* a pass that keeps the list of the pass before it when there is one
take_snapshot_once(held, listed) == IF held # <<>> THEN held ELSE listed

\* rules = parse_ufw_status() at the top of every pass: the list the pass works
\* from is the one just listed, whatever the pass before held
take_snapshot(held, listed) == listed

\* parse_ufw_status(), the listing query succeeding, and the code of the caller
\* up to its next call
ParseStatus ==
    /\ pc = "parse"
    /\ polls < MaxPolls
    /\ rules' = take_snapshot(rules, parse_ufw_status(ufw_status_numbered(table)))
    /\ LET nxt == after_snapshot(mode, rules', dry_run, assume_yes, interval)
       IN  /\ todo' = IF nxt.pc = "delete" THEN sorted_desc(rules') ELSE <<>>
           /\ pc' = nxt.pc
           /\ exit' = nxt.exit
    /\ polls' = polls + 1
    /\ listing' = "ok"
    /\ calls' = <<>>
    /\ edited' = FALSE
    /\ snap' = table
    /\ answer' = <<>>
    /\ UNCHANGED <<table, mode, dry_run, assume_yes, interval, prev, edits, euid, sigint>>

\* parse_ufw_status(), "ufw status numbered" ending with a non-zero status
ParseStatusFails ==
    /\ pc = "parse"
    /\ polls < MaxPolls
    /\ polls' = polls + 1
    /\ listing' = "failed"
    /\ pc' = query_failed(mode).pc
    /\ exit' = query_failed(mode).exit
    /\ UNCHANGED <<table, mode, dry_run, assume_yes, interval, rules, todo, calls, prev,
                   edits, edited, snap,
                   euid, answer, sigint>>

\* the operator answers the prompt
Confirm(typed) ==
    /\ pc = "confirm"
    /\ LET nxt == after_confirm(mode, typed, interval)
       IN  /\ pc' = nxt.pc
           /\ exit' = nxt.exit
           /\ todo' = IF nxt.pc = "delete" THEN sorted_desc(rules) ELSE <<>>
    /\ answer' = <<typed>>
    /\ UNCHANGED <<table, mode, dry_run, assume_yes, interval, rules, calls, prev, polls,
                   listing, edits, edited, snap, euid, sigint>>

\* a delete_rules without its except clause: the CalledProcessError of a failed
\* call goes up through watch_loop and main and ends the process
after_call_raises(ok, nxt) == IF ok THEN nxt ELSE Ended("killed")

\* where the process goes after one delete call, nxt being where it goes after a
\* call that succeeded: the except clause of delete_rules makes a failure the same
after_call(ok, nxt) == nxt

\* one turn of the loop of delete_rules: "ufw --force delete idx", which succeeds
\* only on an index the table has, and may fail on any
DeleteCall(ok) ==
    /\ pc = "delete"
    /\ todo # <<>>
    /\ LET idx == Head(todo)
           rest == delete_rest(ok, Tail(todo))
           nxt == after_call(ok, IF rest = <<>> THEN after_delete(mode, interval)
                                 ELSE Goto("delete"))
       IN  /\ ok => idx \in 1..Len(table)
           /\ table' = IF ok THEN ufw_delete(table, idx) ELSE table
           /\ calls' = Append(calls, [idx |-> idx, ok |-> ok,
                                      rule |-> IF ok THEN table[idx] ELSE NoRule])
           /\ todo' = rest
           /\ pc' = nxt.pc
           /\ exit' = nxt.exit
    /\ UNCHANGED <<mode, dry_run, assume_yes, interval, rules, prev, polls, listing, edits, edited,
                   snap,
                   euid, answer, sigint>>

\* time.sleep(interval) returns
Sleep ==
    /\ pc = "sleep"
    /\ pc' = "parse"
    /\ UNCHANGED <<table, mode, dry_run, assume_yes, interval, rules, todo, calls, exit,
                   prev, polls, listing, edits, edited, snap,
                   euid, answer, sigint>>

\* Ctrl+C while the process runs
Interrupt ==
    /\ pc \in {"parse", "confirm", "delete", "sleep"}
    /\ pc' = on_interrupt(mode).pc
    /\ exit' = on_interrupt(mode).exit
    /\ sigint' = TRUE
    /\ UNCHANGED <<table, mode, dry_run, assume_yes, interval, rules, todo, calls, prev,
                   polls, listing, edits, edited, snap, euid, answer>>

\* Another actor may edit the table between the first snapshot of a run and its
\* end. (An edit before the first snapshot gives a table Init has.)
OthersMayEdit == pc \in {"confirm", "delete", "sleep"} \/ (pc = "parse" /\ polls > 0)

\* another actor adds a rule to the table, at its head or at its end
ExternalAdd(r, n) ==
    /\ OthersMayEdit
    /\ edits < MaxEdits
    /\ n \in {1, Len(table) + 1}
    /\ Len(table) < MaxRules
    /\ r \notin Range(table)
    /\ table' = ufw_insert(table, n, r)
    /\ edits' = edits + 1
    /\ edited' = TRUE
    /\ UNCHANGED <<pc, mode, dry_run, assume_yes, interval, rules, todo, calls, exit,
                   prev, polls, listing, snap,
                   euid, answer, sigint>>

\* another actor removes a rule from the table
ExternalRemove(n) ==
    /\ OthersMayEdit
    /\ edits < MaxEdits
    /\ n \in 1..Len(table)
    /\ table' = ufw_delete(table, n)
    /\ edits' = edits + 1
    /\ edited' = TRUE
    /\ UNCHANGED <<pc, mode, dry_run, assume_yes, interval, rules, todo, calls, exit,
                   prev, polls, listing, snap,
                   euid, answer, sigint>>

Next ==
    \/ \E dry \in BOOLEAN, yes \in BOOLEAN : Main("single", dry, yes, 0)
    \/ \E dry \in BOOLEAN, yes \in BOOLEAN, ivl \in Intervals : Main("watch", dry, yes, ivl)
    \/ \E sudo_found \in BOOLEAN : EnsureRoot(sudo_found)
    \/ \E granted \in BOOLEAN : Sudo(granted)
    \/ ParseStatus
    \/ ParseStatusFails
    \/ \E typed \in Answers : Confirm(typed)
    \/ \E ok \in BOOLEAN : DeleteCall(ok)
    \/ Sleep
    \/ Interrupt
    \/ \E r \in RuleUniverse, n \in {1, Len(table) + 1} : ExternalAdd(r, n)
    \/ \E n \in 1..Len(table) : ExternalRemove(n)

Spec == Init /\ [][Next]_vars

-----------------------------------------------------------------------------
(* The classifier on its own: one listing query over tables written with     *)
(* every combination of destination, action, direction and source           *)

MaxParseRules == 2

ParseTos == {"22/tcp", "22,8080/tcp", "220/tcp", "5522", "80/tcp (v6)"}

ParseFroms == {"Anywhere", "Anywhere (v6)", "10.0.0.0/8"}

ParseUniverse ==
    {Rule(t, a, d, f) : t \in ParseTos, a \in {"ALLOW", "DENY"}, d \in {"IN", "OUT"},
                        f \in ParseFroms}

InitParse ==
    /\ table \in TablesOver(ParseUniverse, MaxParseRules)
    /\ pc = "parse"
    /\ mode = "single"
    /\ dry_run = TRUE
    /\ assume_yes = FALSE
    /\ interval = 0
    /\ rules = <<>>
    /\ todo = <<>>
    /\ calls = <<>>
    /\ exit = "running"
    /\ prev = "none"
    /\ polls = 0
    /\ listing = "none"
    /\ edits = 0
    /\ edited = FALSE
    /\ snap = <<>>
    /\ euid = "root"
    /\ answer = <<>>
    /\ sigint = FALSE

NextParse == ParseStatus

SpecParse == InitParse /\ [][NextParse]_vars

\* watch mode with --yes on a firewall nobody else touches and whose delete
\* calls all succeed; every call the process makes returns, so it keeps stepping
NextConverge ==
    \/ \E ivl \in Intervals : Main("watch", FALSE, TRUE, ivl)
    \/ EnsureRoot(TRUE)
    \/ Sudo(TRUE)
    \/ ParseStatus
    \/ DeleteCall(TRUE)
    \/ Sleep

\* the listing query returns: enabled exactly when ParseStatus is, so that its
\* weak fairness keeps the process from waiting at the query for ever
ListingReturns ==
    /\ pc = "parse"
    /\ polls < MaxPolls
    /\ polls' = polls + 1
    /\ UNCHANGED <<table, pc, euid, mode, dry_run, assume_yes, interval, rules, todo,
                   calls, exit, prev, listing, edits, edited, snap, answer, sigint>>

SpecConverge ==
    /\ Init
    /\ [][NextConverge]_vars
    /\ WF_vars(\E ivl \in Intervals : Main("watch", FALSE, TRUE, ivl))
    /\ WF_vars(EnsureRoot(TRUE))
    /\ WF_vars(Sudo(TRUE))
    /\ WF_vars(ListingReturns)
    /\ WF_vars(DeleteCall(TRUE))
    /\ WF_vars(Sleep)

-----------------------------------------------------------------------------
(* The policy, stated on the rules themselves *)

\* the words of s: its maximal runs of word characters
WordsOf(s) ==
    LET IsRun(i, j) ==
            /\ i <= j
            /\ \A k \in i..j : IsWordChar(s[k])
            /\ i = 1 \/ ~IsWordChar(s[i - 1])
            /\ j = Len(s) \/ ~IsWordChar(s[j + 1])
    IN  {SubSeq(s, p[1], p[2]) : p \in {q \in (1..Len(s)) \X (1..Len(s)) : IsRun(q[1], q[2])}}

\* the rule names port 22: 22 is one of the words of its destination
NamesPort22(r) == S_22 \in WordsOf(Text(r.to))

\* the policy: the rule allows inbound traffic from anywhere to something other
\* than port 22
Violates(r) ==
    /\ r.action = "ALLOW"
    /\ r.dir = "IN"
    /\ r.from \in {"Anywhere", "Anywhere (v6)"}
    /\ ~NamesPort22(r)

\* the indices of table t that hold a rule violating the policy
ViolationSet(t) == {i \in 1..Len(t) : Violates(t[i])}

-----------------------------------------------------------------------------
(* C2 *)

\* C2: for every listing, parse_ufw_status returns the index of a line exactly
\* when the line is ALLOW IN from "Anywhere" or "Anywhere (v6)" and its
\* destination does not hold 22 as a whole word; a DENY or OUT line is never
\* returned, "220/tcp" and "5522" are not exempted, "22/tcp" is exempted.
C2_ClassifiedIffViolating ==
    pc = "done" =>
        /\ Range(rules) = ViolationSet(snap)
        /\ \A i \in 1..Len(snap) :
            /\ snap[i].action = "DENY" \/ snap[i].dir = "OUT" => i \notin Range(rules)
            /\ snap[i].to = "22/tcp" => i \notin Range(rules)
            /\ /\ snap[i].to \in {"220/tcp", "5522"}
               /\ snap[i].action = "ALLOW"
               /\ snap[i].dir = "IN"
               /\ snap[i].from \in {"Anywhere", "Anywhere (v6)"}
               => i \in Range(rules)

\* a listing with an exempted 22/tcp line and a flagged 220/tcp line has been
\* classified
C2_Witness ==
    /\ pc = "done"
    /\ Len(snap) = 2
    /\ snap[1] = Rule("22/tcp", "ALLOW", "IN", "Anywhere (v6)")
    /\ snap[2] = Rule("220/tcp", "ALLOW", "IN", "Anywhere")
    /\ rules = <<2>>

-----------------------------------------------------------------------------
(* C1, C3, C7: the deletion plan *)

\* table t without the rules at the indices of S
RECURSIVE Without(_, _)
Without(t, S) ==
    IF t = <<>> THEN <<>>
    ELSE LET front == Without(SubSeq(t, 1, Len(t) - 1), S)
         IN  IF Len(t) \in S THEN front ELSE Append(front, t[Len(t)])

\* the indices of the delete calls issued since the snapshot, in call order
CallIndices == [k \in 1..Len(calls) |-> calls[k].idx]

StrictlyDescending(s) == \A k \in 2..Len(s) : s[k] < s[k - 1]

\* a snapshot has been taken and no other actor has changed the table since
Undisturbed == ~edited /\ (listing = "ok" \/ calls # <<>>)

\* C1: while no other actor has changed the table since the snapshot, every
\* delete call that removes a rule removes the rule that held its index in the
\* snapshot, whether or not earlier calls of the plan failed; the table is the
\* snapshot less the rules so removed, and every rule outside the violation set
\* is still in it.
C1_DeletesSnapshotRule ==
    Undisturbed =>
        /\ \A k \in 1..Len(calls) :
            /\ calls[k].idx \in 1..Len(snap)
            /\ calls[k].ok => calls[k].rule = snap[calls[k].idx]
        /\ table = Without(snap, {calls[k].idx : k \in {j \in 1..Len(calls) : calls[j].ok}})
        /\ \A i \in 1..Len(snap) : i \notin Range(rules) => snap[i] \in Range(table)

\* a plan of two deletions around the port-22 rule: the call for index 3 failed,
\* the call for index 1 then removed the first rule, and the port-22 rule stays
C1_Witness ==
    /\ ~edited
    /\ exit = "completed"
    /\ Len(snap) = 3
    /\ snap[2] = R_ssh
    /\ CallIndices = <<3, 1>>
    /\ ~calls[1].ok
    /\ calls[2].ok
    /\ table = <<R_ssh, snap[3]>>

\* C3: within one plan each delete call's index is strictly lower than the
\* index of the call before it; the plan for [3, 7, 1] is 7, 3, 1.
C3_StrictlyDescending ==
    /\ StrictlyDescending(CallIndices)
    /\ sorted_desc(<<3, 7, 1>>) = <<7, 3, 1>>

\* a plan of three deletions has been carried out
C3_Witness ==
    /\ CallIndices = <<3, 2, 1>>
    /\ pc = "done"

\* C7: a failed call does not end the batch: the calls made and the calls still
\* to make are, together and in this order, the indices of the plan, each once,
\* in descending order; so when the loop is over every index has been tried once.
C7_FailureDoesNotAbort ==
    (pc = "delete" \/ calls # <<>>) =>
        LET all == CallIndices \o todo
        IN  /\ Len(all) = Len(rules)
            /\ Range(all) = Range(rules)
            /\ StrictlyDescending(all)

\* the first and the second call of a plan of three failed and the third was made
C7_Witness ==
    /\ Len(calls) = 3
    /\ ~calls[1].ok
    /\ ~calls[2].ok
    /\ calls[3].ok
    /\ todo = <<>>

-----------------------------------------------------------------------------
(* C4, C6, C8: dry-run and the end of the watch loop *)

\* the step is a listing query that succeeded
SnapshotStep == polls' = polls + 1 /\ listing' = "ok"

\* C4: in a dry-run execution, one-shot or watch, with or without assume-yes, no
\* delete call is issued and the tool does not change the rule table (only
\* another actor's edit does).
C4_DryRunNeverDeletes ==
    [][dry_run' => /\ calls' = <<>>
                   /\ pc' # "delete"
                   /\ table' # table => edits' # edits]_vars

\* a second dry-run iteration of the watch loop, assume-yes set, has reported
\* a non-empty plan
C4_Witness ==
    /\ dry_run
    /\ assume_yes
    /\ mode = "watch"
    /\ polls = 2
    /\ rules # <<>>
    /\ table # <<>>

\* C6: the watch loop ends on its own exactly at a snapshot with no violation,
\* with no delete call and no further query after it; a snapshot with a
\* violation never ends it, whatever dry-run, assume-yes and the interval are:
\* apart from that it ends only by an interrupt or a failed query.
C6_WatchEndsOnlyWhenClean ==
    [][mode' = "watch" =>
        /\ SnapshotStep =>
            /\ (rules' = <<>>) <=> (pc' = "done")
            /\ rules' = <<>> => exit' = "clean" /\ calls' = <<>> /\ todo' = <<>>
        /\ (pc # "done" /\ pc' = "done" /\ ~SnapshotStep) =>
               exit' \in {"interrupted", "fatal"}
        /\ (pc = "done" /\ mode = "watch") => UNCHANGED <<calls, polls, table>>]_vars

\* the watch loop ended on its own at its second snapshot
C6_Witness ==
    /\ mode = "watch"
    /\ pc = "done"
    /\ exit = "clean"
    /\ polls = 2
    /\ rules = <<>>

\* C8 as stated: with dry-run set, the run has ended once a non-empty plan has
\* been reported, and takes no second snapshot.
C8_DryRunStopsInEveryMode ==
    dry_run => /\ polls <= 1
               /\ (listing = "ok" /\ rules # <<>>) => pc = "done"

\* C8, amended: with dry-run set a non-empty plan is reported and no delete call
\* is issued; the one-shot pass then ends, while the watch loop goes on to its
\* sleep (with an interval above 0) and its next snapshot.
C8_DryRunStopsOneShotOnly ==
    [][(dry_run' /\ SnapshotStep /\ rules' # <<>>) =>
        /\ calls' = <<>>
        /\ todo' = <<>>
        /\ mode' = "single" => pc' = "done" /\ exit' = "dryrun"
        /\ mode' = "watch" => /\ exit' = "running"
                              /\ pc' = IF interval' > 0 THEN "sleep" ELSE "parse"]_vars

\* a dry-run watch loop with an interval sleeps after the report of its second
\* snapshot
C8_Witness ==
    /\ dry_run
    /\ mode = "watch"
    /\ interval > 0
    /\ pc = "sleep"
    /\ polls = 2
    /\ rules # <<>>

-----------------------------------------------------------------------------
(* C5: other actors *)

\* C5 as stated: every rule the tool removes violates the policy, also when
\* another actor edits the table between the snapshot and a delete call.
C5_RemovesOnlyViolating ==
    \A k \in 1..Len(calls) : calls[k].ok => Violates(calls[k].rule)

\* C5, amended: while no other actor has edited the table since the snapshot of
\* the pass, every rule the tool removes violates the policy, so the port-22
\* rule is not removed.
C5_RemovesOnlyViolatingUnedited ==
    Undisturbed =>
        /\ \A k \in 1..Len(calls) : calls[k].ok => Violates(calls[k].rule)
        /\ \A i \in 1..Len(snap) : ~Violates(snap[i]) => snap[i] \in Range(table)

\* after an edit by another actor in an earlier iteration, a pass that no edit
\* disturbed removed a rule and left the port-22 rule in the table
C5_Witness ==
    /\ ~edited
    /\ edits > 0
    /\ \E k \in 1..Len(calls) : calls[k].ok
    /\ R_ssh \in Range(snap)
    /\ R_ssh \in Range(table)

-----------------------------------------------------------------------------
(* C9, C10 *)

\* C9: a one-shot pass that follows a one-shot pass and finds a table with no
\* violating rule reports nothing to do, issues no delete call and leaves the
\* table as it is.
C9_SecondPassIsNoOp ==
    [][(mode' = "single" /\ prev' = "completed" /\ SnapshotStep /\ ViolationSet(table) = {}) =>
        /\ rules' = <<>>
        /\ pc' = "done"
        /\ exit' = "nothing"
        /\ calls' = <<>>
        /\ table' = table]_vars

\* a second one-shot pass, after a first one that removed rules and left the
\* port-22 rule, ended with nothing to do
C9_Witness ==
    /\ mode = "single"
    /\ prev = "completed"
    /\ exit = "nothing"
    /\ pc = "done"
    /\ edits = 0
    /\ table = <<R_ssh>>

\* C10: when the listing query fails the process ends at once with a non-zero
\* status, in both modes; no delete call, sleep or further query follows.
C10_FailedListingIsFatal ==
    [][/\ listing' = "failed" => pc' = "done" /\ exit' = "fatal" /\ ExitCode(exit') # 0
       /\ listing = "failed" => UNCHANGED <<calls, polls, table, pc>>]_vars

\* the second query of a watch loop failed, after a pass that issued delete calls
C10_Witness ==
    /\ listing = "failed"
    /\ mode = "watch"
    /\ polls = 2
    /\ calls # <<>>
    /\ pc = "done"

\* the answers that say yes to "[y/N]": the letter y, in either case, with or
\* without blanks around it
Affirmative ==
    {<<"y">>, <<"Y">>, <<" ", "y">>, <<" ", "Y">>, <<"y", " ">>, <<"Y", " ">>}

\* the operator has answered the prompt of this pass with a yes
SaidYes == answer # <<>> /\ answer[1] \in Affirmative

\* the step in which the prompt of this pass is answered
AnswerStep == pc = "confirm" /\ answer = <<>> /\ answer' # <<>>

\* C11: in one-shot mode without dry-run and without assume-yes the delete step
\* is reached only after a yes at the prompt; any other answer issues no delete
\* call, leaves the rule table as it is and ends the run with status 0; with
\* assume-yes there is no prompt and the delete step follows the snapshot directly.
C11_DeleteOnlyAfterYes ==
    [][(mode' = "single" /\ ~dry_run') =>
        /\ (~assume_yes' /\ (pc' = "delete" \/ calls' # <<>>)) => SaidYes'
        /\ (AnswerStep /\ ~SaidYes') =>
               /\ calls' = <<>>
               /\ table' = table
               /\ pc' = "done"
               /\ exit' = "aborted"
               /\ ExitCode(exit') = 0
        /\ assume_yes' => pc' # "confirm" /\ answer' = <<>>
        /\ (assume_yes' /\ SnapshotStep /\ ViolationSet(table) # {}) =>
               pc' = "delete" /\ todo' # <<>>]_vars

\* a one-shot run that asked, was told "n", and ended without touching a
\* table that held violations
C11_Witness ==
    /\ mode = "single"
    /\ ~dry_run
    /\ ~assume_yes
    /\ answer = <<<<"n">>>>
    /\ pc = "done"
    /\ exit = "aborted"
    /\ calls = <<>>
    /\ ViolationSet(table) # {}
    /\ table = snap

\* the command-line arguments of the process
Arguments == <<mode, dry_run, assume_yes, interval>>

\* C12: the elevation step comes before any firewall call: a process that is not
\* root has issued no listing query and no delete call, and its only ways on are
\* to be replaced by sudo, which starts the script as root with the same
\* arguments or refuses, or to end with an error status.
C12_NonRootNeverCallsFirewall ==
    [][/\ euid' = "user" =>
           /\ pc' \in {"start", "sudo", "done"}
           /\ polls' = 0 /\ listing' = "none" /\ calls' = <<>>
           /\ table' = table
           /\ pc' = "done" => exit' = "fatal" /\ ExitCode(exit') # 0
       /\ pc' \in {"parse", "confirm", "delete", "sleep"} => euid' = "root"
       /\ (pc = "start" /\ euid = "user") =>
           \/ pc' = "sudo" /\ euid' = "user" /\ Arguments' = Arguments
           \/ pc' = "done" /\ exit' = "fatal"
       /\ pc = "sudo" =>
           \/ pc' = "start" /\ euid' = "root" /\ Arguments' = Arguments
           \/ pc' = "done" /\ exit' = "fatal" /\ euid' = "user"]_vars

\* a process started by a user with --watch 1 --dry-run --yes has become sudo,
\* which is about to start it again; nothing has been asked of the firewall
C12_Witness ==
    /\ euid = "user"
    /\ pc = "sudo"
    /\ mode = "watch" /\ dry_run /\ assume_yes /\ interval = 1
    /\ polls = 0
    /\ calls = <<>>
    /\ ViolationSet(table) # {}

\* C13: watch mode with assume-yes and without dry-run, nobody else editing and
\* every delete call succeeding, reaches from every initial table a snapshot with
\* zero violations after at most one deletion pass and ends there, the table then
\* holding no ALLOW IN rule from anywhere but the port-22 ones.
C13_WatchConverges ==
    <>(/\ pc = "done"
       /\ exit = "clean"
       /\ rules = <<>>
       /\ polls <= 2
       /\ ViolationSet(table) = {})

\* the loop has ended at its second snapshot: one deletion pass left only the
\* port-22 rule
C13_Witness ==
    /\ mode = "watch" /\ assume_yes /\ ~dry_run
    /\ pc = "done"
    /\ exit = "clean"
    /\ polls = 2
    /\ table = <<R_ssh>>

\* C14: indices are never carried across a poll boundary: in both modes every
\* index passed to a delete call, and every index still planned, is in the
\* violation set of the most recent snapshot (the list of the pass is that set,
\* from the moment either changes); a snapshot starts a pass with no call made,
\* and a delete call takes no snapshot and leaves the list alone.
C14_IndicesFromLatestSnapshot ==
    [][/\ (rules' # rules \/ snap' # snap) => Range(rules') = ViolationSet(snap')
       /\ \A k \in 1..Len(calls') : calls'[k].idx \in Range(rules')
       /\ Range(todo') \subseteq Range(rules')
       /\ SnapshotStep => calls' = <<>> /\ snap' = table
       /\ (calls' # calls /\ calls' # <<>>) =>
              /\ listing = "ok"
              /\ polls' = polls
              /\ snap' = snap
              /\ rules' = rules
              /\ calls' = Append(calls, calls'[Len(calls')])
              /\ calls'[Len(calls')].idx = Head(todo)]_vars

\* second pass of the watch loop, after somebody else edited the table: a delete
\* call has been made from the second snapshot
C14_Witness ==
    /\ mode = "watch"
    /\ polls = 2
    /\ edits = 1
    /\ calls # <<>>
    /\ snap # <<>>
    /\ calls[1].idx \in ViolationSet(snap)

\* C15: an interrupt in watch mode ends the loop with no further listing query
\* or delete call, and never leaves a deletion plan that has started partly
\* executed: once Ctrl+C has arrived the process is done, the calls made and the
\* table stay as they are, and either no call of the plan was made or none is
\* left to make.
C15_InterruptLeavesNoPartialPlan ==
    [][(mode' = "watch" /\ sigint') =>
        /\ pc' = "done"
        /\ exit' = "interrupted"
        /\ calls' = calls
        /\ polls' = polls
        /\ table' = table
        /\ calls' = <<>> \/ todo' = <<>>]_vars

\* the last delete call made
LastCall == calls[Len(calls)]

\* the step is a delete call that failed
FailedCallStep == calls' # calls /\ calls' # <<>> /\ ~LastCall'.ok

\* C16: in watch mode a failed delete call does not end the loop and is not
\* retried within the same plan: the loop goes on with the rest of the plan or
\* with its sleep and next snapshot, and no index is called twice in a pass;
\* unless somebody else edited the table, the next snapshot finds the rule that
\* was not deleted again and the loop does not end there: with assume-yes and
\* without dry-run a new delete call for it is planned at once.
C16_FailedDeleteIsFoundAgain ==
    [][mode' = "watch" =>
        /\ FailedCallStep =>
               /\ exit' = "running"
               /\ pc' \in {"delete", "sleep", "parse"}
               /\ table' = table
               /\ LastCall'.idx \notin Range(todo')
        /\ \A j, k \in 1..Len(calls') : j # k => calls'[j].idx # calls'[k].idx
        /\ (SnapshotStep /\ ~edited) =>
               \A k \in 1..Len(calls) : ~calls[k].ok =>
                   /\ pc' # "done"
                   /\ \E j \in Range(rules') :
                          /\ table[j] = snap[calls[k].idx]
                          /\ (assume_yes /\ ~dry_run) => pc' = "delete" /\ j \in Range(todo')
       ]_vars

\* second iteration of watch --yes on a table nobody else touched: the delete
\* call failed in the first iteration and has failed again in the second
C16_Witness ==
    /\ mode = "watch" /\ assume_yes /\ ~dry_run
    /\ edits = 0
    /\ polls = 2
    /\ calls # <<>>
    /\ ~calls[1].ok
    /\ table = snap

\* C17: in watch mode without dry-run and without assume-yes every snapshot that
\* finds violations is followed by the prompt; an answer other than yes issues no
\* delete call in that iteration and does not end the loop, which goes on to its
\* sleep (when the interval is above 0) and the next snapshot; delete calls are
\* made only in an iteration whose prompt was answered yes.
C17_DeclineKeepsWatching ==
    [][(mode' = "watch" /\ ~dry_run' /\ ~assume_yes') =>
        /\ (SnapshotStep /\ ViolationSet(table) # {}) =>
               pc' = "confirm" /\ answer' = <<>>
        /\ (AnswerStep /\ ~SaidYes') =>
               /\ calls' = <<>>
               /\ table' = table
               /\ exit' = "running"
               /\ pc' = IF interval > 0 THEN "sleep" ELSE "parse"
        /\ (pc' = "delete" \/ calls' # <<>>) => SaidYes'
        /\ (pc = "sleep" /\ pc' # "sleep" /\ ~sigint') => pc' = "parse"]_vars

\* the operator declined in the first iteration, was asked again at the second
\* snapshot and declined again: the loop is at its sleep, the violations remain
C17_Witness ==
    /\ mode = "watch" /\ ~dry_run /\ ~assume_yes
    /\ edits = 0
    /\ polls = 2
    /\ answer = <<<<"n">>>>
    /\ pc = "sleep"
    /\ calls = <<>>
    /\ ViolationSet(table) # {}

====
